---- MODULE Spec2Model ----
(***************************************************************************)
(* A model of the ScholarManus agent core: the BaseAgent state machine and *)
(* step loop (src/app/agent/base.py), the MCPAgent step with its link      *)
(* check and schema reconciler (src/app/agent/mcp.py), and the federation  *)
(* of tool-server links (src/app/tool/multi_mcp.py).                       *)
(*                                                                         *)
(* run is an async method: it is modelled as an invocation frame with a    *)
(* program counter, one action per stretch of code between two awaits.     *)
(***************************************************************************)
EXTENDS Integers, Sequences, FiniteSets, TLC

\* ------------------------------------------------------------------ bounds
MaxN == 5
MaxLogAtCall == 1
MaxRuns == 2
MaxLinks == 2
MaxStuckLog == 4
MaxConcSteps == 2
MaxTwoSteps == 2

\* ------------------------------------------------------ program constants
duplicate_threshold == 2
refresh_tools_interval == 5
mcp_max_steps == 20

\* ------------------------------------------------------------ value sets
AgentState == {"IDLE", "RUNNING", "BLOCKED", "FINISHED", "ERROR"}
Null == "null"
Requests == {"", "q"}
UserInputs == {"", "u"}
Reasons == {"r"}
ToolNames == {"a", "terminate"}
Frames == {1, 2}

\* the tool sets a server can expose: local tool name -> input schema
NoTools == [n \in {} |-> "s1"]
LiveSets == {NoTools,
             [n \in {"terminate"} |-> "s1"],
             [n \in {"terminate"} |-> "s2"],
             [n \in {"a", "terminate"} |-> "s1"]}

\* the tool sets the server starts with
InitialTools == {NoTools,
                 [n \in {"terminate"} |-> "s1"],
                 [n \in {"a", "terminate"} |-> "s1"]}

\* ------------------------------------------------------------ messages
\* content is the text; tools is the set of tool names a reconciler notice
\* lists in its text (empty for every other message)
Message(role, content) == [role |-> role, content |-> content, tools |-> {}]
ToolsNotice(content, names) ==
    [role |-> "system", content |-> content, tools |-> names]

\* a log that keeps its two latest entries only when a message is added
update_memory_trimming(msgs, role, content) ==
    IF Len(msgs) >= 2
    THEN Append(Tail(msgs), Message(role, content))
    ELSE Append(msgs, Message(role, content))

\* BaseAgent.update_memory: one message appended to the log
update_memory(msgs, role, content) == Append(msgs, Message(role, content))

\* the tool sets the reconciler is called with when it is called alone
RefreshNames == {"a", "b", "c"}
RefreshSchemas == {"s1", "s2", "s3"}
ToolSets == UNION {[d -> RefreshSchemas] : d \in SUBSET RefreshNames}

\* the logs the stuck detector is called with when it is called alone
StuckRoles == {"assistant", "user"}
StuckContents == {"", "A", "B"}
StuckMessages == {Message(r, c) : r \in StuckRoles, c \in StuckContents}
StuckLogs == UNION {[1..n -> StuckMessages] : n \in 0..MaxStuckLog}

\* what the decision engine returns: a plain text, or a tool-call request
Answers == {<<"A", "none">>, <<"", "a">>, <<"", "terminate">>}

\* ------------------------------------------------------ federation values
\* link names and tool names are sequences of characters, so that prefixing
\* and splitting at the separator are computed as the code computes them
Dot == "."
LinkIds == {<<"w">>, <<"d">>, <<"w", Dot, "d">>}
LocalNames == {<<"t">>, <<"d", Dot, "t">>}
\* the tool sets the server behind a federated link can expose
ServerTools == SUBSET LocalNames
\* the names execute_tool is called with
ExecNames == {<<"t">>, <<"w", Dot, "t">>, <<"d", Dot, "t">>,
              <<"w", Dot, "d", Dot, "t">>, <<"x">>, <<"x", Dot, "t">>}
ConnectionTypes == {"sse", "stdio", "other"}

VARIABLES
    state, current_step, max_steps, block_reason, user_input_required,
    next_step_prompt, memory,
    session, tool_map, tool_schemas, live,
    pc, previous_state, results, pending, entry, cleanups,
    tool_calls, step_result, events, last, runs,
    refreshed, stuck,
    clients, links, fed_tool_map, fed_pc, fed_out,
    passes,
    agents, sandbox

agentVars == <<state, current_step, max_steps, block_reason,
               user_input_required, next_step_prompt, memory>>
linkVars == <<session, tool_map, tool_schemas, live>>
frameVars == <<pc, previous_state, results, pending, entry, cleanups,
               tool_calls, step_result, events>>
fedVars == <<clients, links, fed_tool_map, fed_pc, fed_out>>
\* what the agent's step loop never touches: the results of the calls made
\* on the reconciler and the stuck detector alone, and the federation
\* two agents of one process and the sandbox client they share
twoVars == <<agents, sandbox>>
callVars == <<refreshed, stuck, fedVars, twoVars>>
\* and the steps of the current run in which the reconciler was called
sideVars == <<callVars, passes>>
\* what the federation never touches
nonFedVars ==
    <<agentVars, linkVars, frameVars, last, runs, refreshed, stuck, passes,
      twoVars>>
\* what the two-agent process never touches, the federation apart
nonFedVars_but_two ==
    <<agentVars, linkVars, frameVars, last, runs, refreshed, stuck, passes>>
vars == <<agentVars, linkVars, frameVars, last, runs, sideVars>>

\* ------------------------------------------------------------ step records
Record(kind, n, text) == [kind |-> kind, n |-> n, text |-> text]
StepRecord(n, res) == Record("Step", n, res)
BlockedRecord(reason) == Record("Blocked", 0, reason)
WaitingRecord == Record("Waiting for user input to continue", 0, "")
TerminatedRecord(n) == Record("Terminated: Reached max steps", n, "")
ResumingRecord(reason) == Record("Resuming from blocked state", 0, reason)
NoStepsExecuted == Record("No steps executed", 0, "")

\* the value run returns: the records, or the sentinel (joined by newlines
\* in the code; the sequence of lines is kept here)
Summary(recs) == IF recs # <<>> THEN recs ELSE <<NoStepsExecuted>>

\* ------------------------------------------------------------ pure parts
\* BaseAgent.is_stuck
is_stuck(msgs) ==
    IF Len(msgs) < 2 THEN FALSE
    ELSE LET last_message == msgs[Len(msgs)]
             duplicate_count ==
                 Cardinality({i \in 1..(Len(msgs) - 1) :
                     /\ msgs[i].role = "assistant"
                     /\ msgs[i].content = last_message.content})
         IN  IF last_message.content = "" THEN FALSE
             ELSE duplicate_count >= duplicate_threshold

\* a handler that keeps one copy of the instruction, however often it runs
handle_stuck_state_once(prompt) == IF prompt = 0 THEN 1 ELSE prompt

\* BaseAgent.handle_stuck_state: one more copy of the corrective instruction
\* in front of next_step_prompt (the prompt is modelled by the number of
\* copies prepended so far)
handle_stuck_state(prompt) == prompt + 1

\* a classifier that flags every message that has a text
needs_user_input_flagging(content) == content # ""

\* MCPAgent._needs_user_input: the boolean of the returned pair; every return
\* statement of the function returns False as its first component
needs_user_input(content) == FALSE

\* MCPAgent._needs_user_input: the reason of the returned pair (the flagged
\* sentences joined; kept abstract: empty for an empty message)
needs_user_input_reason(content) == IF content = "" THEN "" ELSE content

\* MCPAgent._refresh_tools: the diff of the live set against the cache
added_tools(cache, current) == DOMAIN current \ DOMAIN cache
removed_tools(cache, current) == DOMAIN cache \ DOMAIN current
changed_tools(cache, current) ==
    {n \in DOMAIN current \cap DOMAIN cache : current[n] # cache[n]}

\* a cache that keeps the entries the live set no longer has
merged_cache(cache, current) ==
    [n \in DOMAIN cache \cup DOMAIN current |->
        IF n \in DOMAIN current THEN current[n] ELSE cache[n]]

\* MCPAgent._refresh_tools, line 120: self.tool_schemas = current_tools
refreshed_cache(cache, current) == current

\* a pass that also tells the log which schemas changed
refresh_messages_with_changes(msgs, cache, current) ==
    LET a == added_tools(cache, current)
        r == removed_tools(cache, current)
        c == changed_tools(cache, current)
        m1 == IF a # {} THEN Append(msgs, ToolsNotice("New tools available", a))
              ELSE msgs
        m2 == IF r # {}
              THEN Append(m1, ToolsNotice("Tools no longer available", r))
              ELSE m1
    IN  IF c # {} THEN Append(m2, ToolsNotice("Tools changed", c)) ELSE m2

\* MCPAgent._refresh_tools: the messages the pass appends to the log
refresh_messages(msgs, cache, current) ==
    LET a == added_tools(cache, current)
        r == removed_tools(cache, current)
        m1 == IF a # {} THEN Append(msgs, ToolsNotice("New tools available", a))
              ELSE msgs
    IN  IF r # {} THEN Append(m1, ToolsNotice("Tools no longer available", r))
        ELSE m1

\* BaseAgent.state_context, on exit: the finally clause assigns
\* previous_state after the except clause assigned ERROR
state_context_exit(prev, raised) == prev

\* a run that only refuses the terminal states
run_accepts_not_finished(s) == s # "FINISHED" /\ s # "ERROR"

\* BaseAgent.run, line 170: the states run accepts
run_accepts(s) == s = "IDLE" \/ s = "BLOCKED"

\* a loop condition without the budget
loop_continues_until_stopped(step, maxs, s) ==
    s # "FINISHED" /\ s # "BLOCKED"

\* a loop condition that allows two iterations beyond the budget
loop_continues_past_budget(step, maxs, s) ==
    step < maxs + 2 /\ s # "FINISHED" /\ s # "BLOCKED"

\* a loop condition that is off by one
loop_continues_one_more(step, maxs, s) ==
    step <= maxs /\ s # "FINISHED" /\ s # "BLOCKED"

\* BaseAgent.run, lines 185-189: the loop condition
loop_continues(step, maxs, s) ==
    step < maxs /\ s # "FINISHED" /\ s # "BLOCKED"

\* an input recorded also when it is empty
input_recorded_always(user_input) == TRUE

\* BaseAgent.unblock, line 149: whether the user input is appended to the log
input_recorded(user_input) == user_input # ""

\* a request recorded whatever the state
request_recorded_in_any_state(s, request) == request # ""

\* BaseAgent.run, line 174: whether the request is appended to the log
request_recorded(s, request) == s = "IDLE" /\ request # ""

\* a budget test that does not look at the state
budget_exhausted_any_state(step, maxs, s) == step >= maxs
\* a budget check that looks at the state only
budget_exhausted_unless_blocked(step, maxs, s) == s # "BLOCKED"

\* BaseAgent.run, line 209: the budget is used up and the agent is not
\* blocked
budget_exhausted(step, maxs, s) == step >= maxs /\ s # "BLOCKED"

\* BaseAgent.run, line 218: whether the sandbox cleanup is awaited
sandbox_cleanup_due(s) == s # "BLOCKED"

\* a link check that looks at the session only
link_unusable_without_session(sess, m) == ~sess

\* MCPAgent.think, line 268: the link has no session or no tools
link_unusable(sess, m) == ~sess \/ m = {}

\* a schedule that reconciles in the first step of every interval
refresh_due_first_of_interval(step) == step % refresh_tools_interval = 1

\* MCPAgent.think, line 275: whether this step runs the reconciler
refresh_due(step) == step % refresh_tools_interval = 0

\* ------------------------------------------------------------ federation
\* "." in name
has_separator(name) == \E i \in 1..Len(name) : name[i] = Dot

\* name.split(".", 1): the text before the first separator and the text
\* after it
split_name(name) ==
    LET i == CHOOSE k \in 1..Len(name) :
                 name[k] = Dot /\ \A j \in 1..(k - 1) : name[j] # Dot
    IN  <<SubSeq(name, 1, i - 1), SubSeq(name, i + 1, Len(name))>>

\* f"{client_name}.{tool_name}"
prefixed_name(client_name, tool_name) == client_name \o <<Dot>> \o tool_name

\* name in self.clients
registered(cs, name) == \E i \in DOMAIN cs : cs[i].name = name

\* the place of a name in the insertion-ordered dict self.clients
client_index(cs, name) == CHOOSE i \in DOMAIN cs : cs[i].name = name

\* self.clients[name] = client: a new key goes to the end of the dict, the
\* value of a key that is present is replaced where it stands
set_client(cs, name, link) ==
    IF registered(cs, name)
    THEN [i \in DOMAIN cs |->
             IF cs[i].name = name THEN [name |-> name, link |-> link]
             ELSE cs[i]]
    ELSE Append(cs, [name |-> name, link |-> link])

\* a removal that removes nothing
del_client_none(cs, name) == cs

\* del self.clients[name]
del_client(cs, name) == SelectSeq(cs, LAMBDA c : c.name # name)

\* the flattened namespace: prefixed name -> the link that owns the tool and
\* the tool's local name
NoNamespace == [k \in {} |-> [link |-> 0, local |-> <<>>]]

\* MultiMCPClients._update_tool_map, the loop over self.clients.items()
\* from the clients cs on, with m built so far: a client without a session
\* is skipped, every tool of the others is stored under its prefixed name
RECURSIVE update_tool_map_from(_, _, _)
update_tool_map_from(cs, ls, m) ==
    IF cs = <<>> THEN m
    ELSE LET client == Head(cs)
             link == ls[client.link]
             new == IF link.session
                    THEN {prefixed_name(client.name, t) : t \in link.tool_map}
                    ELSE {}
             m2 == [k \in DOMAIN m \cup new |->
                       IF k \in new
                       THEN [link |-> client.link,
                             local |-> CHOOSE t \in link.tool_map :
                                           prefixed_name(client.name, t) = k]
                       ELSE m[k]]
         IN  update_tool_map_from(Tail(cs), ls, m2)

\* MultiMCPClients._update_tool_map: the namespace is emptied and rebuilt
update_tool_map(cs, ls) == update_tool_map_from(cs, ls, NoNamespace)

\* what an operation of the federation gives back to its caller
Outcome(kind, link, local) == [kind |-> kind, link |-> link, local |-> local]
\* the call went to a link (MCPClients.execute of that link), for a tool name
Dispatched(link, local) == Outcome("dispatched", link, local)
\* ToolResult(error="Tool not found: ...")
ToolNotFound == Outcome("tool_not_found", 0, <<>>)
Raised == Outcome("raised", 0, <<>>)

\* an execute_tool that raises for a name it cannot resolve
execute_tool_raising(cs, ls, m, name) ==
    IF has_separator(name) /\ registered(cs, split_name(name)[1])
    THEN Dispatched(cs[client_index(cs, split_name(name)[1])].link,
                    split_name(name)[2])
    ELSE Raised

\* MultiMCPClients.execute_tool: where the call goes
execute_tool_result(cs, ls, m, name) ==
    LET holders == {i \in DOMAIN cs : name \in ls[cs[i].link].tool_map}
        first == CHOOSE i \in holders : \A j \in holders : i <= j
    IN  IF has_separator(name) /\ registered(cs, split_name(name)[1])
        THEN Dispatched(cs[client_index(cs, split_name(name)[1])].link,
                        split_name(name)[2])
        ELSE IF holders # {}
        THEN Dispatched(cs[first].link, name)
        ELSE IF name \in DOMAIN m
        THEN Dispatched(m[name].link, m[name].local)
        ELSE ToolNotFound

\* no operation of the federation is in progress
FedIdle == [op |-> "none", name |-> <<>>, todo |-> <<>>]
\* the last operation of the federation and what it gave back
FedOut(op, name, returned) == [op |-> op, name |-> name, returned |-> returned]

\* ------------------------------------------------------------ frames
Idle(f) == pc[f] \in {"idle", "done"}
NoActiveFrame == \A f \in Frames : Idle(f)
\* the owner of the agent may make a call: no run is in progress, and the
\* model follows the agent up to its MaxRuns-th run
BetweenCalls == NoActiveFrame /\ runs < MaxRuns
NoCleanups == [sandbox |-> 0, link |-> 0, disconnect |-> 0]
Snapshot == [state |-> state, current_step |-> current_step,
             block_reason |-> block_reason,
             user_input_required |-> user_input_required,
             memory |-> memory, session |-> session]

\* ------------------------------------------------------------ Init
\* a BaseAgent after construction; the link is not connected
NewAgent ==
    /\ state = "IDLE"
    /\ current_step = 0
    /\ block_reason = Null
    /\ user_input_required = FALSE
    /\ next_step_prompt = 0
    /\ memory = <<>>
    /\ session = FALSE
    /\ tool_map = {}
    /\ tool_schemas = NoTools
    /\ last = <<"new">>
    /\ runs = 0
    /\ events = [f \in Frames |-> {}]
    /\ pc = [f \in Frames |-> "idle"]
    /\ previous_state = [f \in Frames |-> "IDLE"]
    /\ results = [f \in Frames |-> <<>>]
    /\ pending = [f \in Frames |-> Null]
    /\ entry = [f \in Frames |-> Snapshot]
    /\ cleanups = [f \in Frames |-> NoCleanups]
    /\ tool_calls = [f \in Frames |-> "none"]
    /\ step_result = [f \in Frames |-> ""]

\* neither the reconciler nor the stuck detector has been called alone
NotRefreshed == [done |-> FALSE, session |-> FALSE,
                 added |-> {}, removed |-> {}, changed |-> {},
                 cache |-> NoTools, current |-> NoTools]
NotAsked == [asked |-> FALSE, verdict |-> FALSE]
\* an agent of the two-agent process after construction, and the sandbox
\* client of the process before its first use
AgentIds == {1, 2}
NewAgentOfTwo == [pc |-> "idle", state |-> "IDLE", previous_state |-> "IDLE",
                  current_step |-> 0, session |-> FALSE, blocked |-> FALSE]
NoSandbox == [created |-> FALSE, users |-> {}, taken |-> {}]
NoSecondAgent ==
    agents = [a \in AgentIds |-> NewAgentOfTwo] /\ sandbox = NoSandbox
NoCalls ==
    /\ refreshed = NotRefreshed
    /\ stuck = NotAsked
    /\ passes = {}
    /\ NoSecondAgent

\* MultiMCPClients.__init__
NewFederation ==
    /\ clients = <<>>
    /\ links = <<>>
    /\ fed_tool_map = NoNamespace
    /\ fed_pc = FedIdle
    /\ fed_out = FedOut("new", <<>>, Outcome("none", 0, <<>>))

Init ==
    /\ NewAgent
    /\ max_steps \in 1..MaxN
    /\ live \in InitialTools
    /\ NoCalls
    /\ NewFederation

\* ------------------------------------------------------------ public calls
\* BaseAgent.block; called by a step (once, while it awaits the decision
\* engine) or by the owner of the agent between two operations
block(reason, require_user_input) ==
    /\ UNCHANGED <<runs, sideVars>>
    /\ \/ BetweenCalls
       \/ \E f \in Frames : pc[f] = "llm" /\ state # "BLOCKED"
    /\ state' = "BLOCKED"
    /\ block_reason' = reason
    /\ user_input_required' = require_user_input
    /\ last' = <<"block">>
    /\ events' = [f \in Frames |->
                     IF pc[f] = "llm" THEN events[f] \cup {"block"}
                     ELSE events[f]]
    /\ UNCHANGED <<current_step, max_steps, next_step_prompt, memory>>
    /\ UNCHANGED <<linkVars, pc, previous_state, results, pending, entry,
                   cleanups, tool_calls, step_result>>

\* an unblock without the check of the state
unblock_unchecked(user_input) ==
    /\ UNCHANGED <<runs, sideVars>>
    /\ BetweenCalls
    /\ user_input # "" => Len(memory) <= MaxLogAtCall
    /\ memory' = IF user_input # ""
                 THEN update_memory(memory, "user", user_input)
                 ELSE memory
    /\ state' = "RUNNING"
    /\ block_reason' = Null
    /\ user_input_required' = FALSE
    /\ last' = <<"unblock", IF state = "BLOCKED" THEN "done" ELSE "ignored">>
    /\ UNCHANGED <<current_step, max_steps, next_step_prompt>>
    /\ UNCHANGED <<linkVars, frameVars>>

\* BaseAgent.unblock
unblock(user_input) ==
    /\ UNCHANGED <<runs, sideVars>>
    /\ BetweenCalls
    /\ IF state # "BLOCKED"
       THEN /\ last' = <<"unblock", "ignored">>
            /\ UNCHANGED agentVars
       ELSE /\ user_input # "" => Len(memory) <= MaxLogAtCall
            /\ memory' = IF input_recorded(user_input)
                         THEN update_memory(memory, "user", user_input)
                         ELSE memory
            /\ state' = "RUNNING"
            /\ block_reason' = Null
            /\ user_input_required' = FALSE
            /\ last' = <<"unblock", "done">>
            /\ UNCHANGED <<current_step, max_steps, next_step_prompt>>
    /\ UNCHANGED <<linkVars, frameVars>>

\* MCPClients.connect_sse / connect_stdio as MCPAgent.initialize uses them:
\* the link gets a session and its tool_map is filled from the server
connect_tool_map(server_tools) == DOMAIN server_tools

\* MCPClients.disconnect: the session is closed and the tool_map emptied
disconnect_tool_map(m) == {}

\* MCPAgent.initialize; ok = FALSE is a call whose transport parameters are
\* missing or whose connection attempt raises
initialize(ok) ==
    /\ UNCHANGED <<runs, sideVars>>
    /\ BetweenCalls
    /\ ~session
    /\ Len(memory) <= MaxLogAtCall
    /\ IF ~ok
       THEN /\ last' = <<"initialize", "raised">>
            /\ UNCHANGED <<memory, session, tool_map, tool_schemas>>
       ELSE /\ session' = TRUE
            /\ tool_map' = connect_tool_map(live)
            /\ tool_schemas' = live
            /\ memory' = Append(refresh_messages(memory, tool_schemas, live),
                                ToolsNotice("system_prompt", connect_tool_map(live)))
            /\ last' = <<"initialize", "done">>
    /\ UNCHANGED <<state, current_step, max_steps, block_reason,
                   user_input_required, next_step_prompt, live, frameVars>>

\* the tool server changes the tools it exposes; the live set is read only
\* by initialize and by the reconciler, so the change is taken right before
\* a step's think
server_change(new_live) ==
    /\ UNCHANGED <<runs, sideVars>>
    /\ session
    /\ \E f \in Frames : pc[f] = "step" /\ refresh_due(current_step)
    /\ new_live # live
    /\ live' = new_live
    /\ UNCHANGED <<agentVars, session, tool_map, tool_schemas, frameVars, last>>

\* ------------------------------------------------------------ run
\* MCPAgent.run / BaseAgent.run, lines 170-184: the state check, the request,
\* the resume record and the entry into state_context(RUNNING)
run_call(f, request) ==
    /\ Idle(f)
    /\ request # "" => Len(memory) <= MaxLogAtCall
    /\ runs < MaxRuns
    /\ runs' = runs + 1
    /\ UNCHANGED callVars
    /\ passes' = {}
    /\ entry' = [entry EXCEPT ![f] = Snapshot]
    /\ cleanups' = [cleanups EXCEPT ![f] = NoCleanups]
    /\ tool_calls' = [tool_calls EXCEPT ![f] = "none"]
    /\ step_result' = [step_result EXCEPT ![f] = ""]
    /\ events' = [events EXCEPT ![f] = {}]
    /\ IF ~run_accepts(state)
       THEN /\ pending' = [pending EXCEPT ![f] = "invalid_state"]
            /\ pc' = [pc EXCEPT ![f] = "finally"]
            /\ results' = [results EXCEPT ![f] = <<>>]
            /\ UNCHANGED <<state, memory, previous_state>>
       ELSE /\ memory' = IF request_recorded(state, request)
                         THEN update_memory(memory, "user", request)
                         ELSE memory
            /\ results' = [results EXCEPT ![f] =
                              IF state = "BLOCKED"
                              THEN <<ResumingRecord(block_reason)>>
                              ELSE <<>>]
            /\ previous_state' = [previous_state EXCEPT ![f] =
                              IF state = "BLOCKED" THEN "RUNNING" ELSE state]
            /\ state' = "RUNNING"
            /\ pending' = [pending EXCEPT ![f] = Null]
            /\ pc' = [pc EXCEPT ![f] = "loop"]
    /\ last' = <<"run", "called">>
    /\ UNCHANGED <<current_step, max_steps, block_reason, user_input_required,
                   next_step_prompt, linkVars>>

\* BaseAgent.run, lines 185-191: the loop condition holds and the next
\* iteration starts
loop_step(f) ==
    /\ UNCHANGED <<runs, sideVars>>
    /\ pc[f] = "loop"
    /\ loop_continues(current_step, max_steps, state)
    /\ current_step' = current_step + 1
    /\ pc' = [pc EXCEPT ![f] = "step"]
    /\ UNCHANGED <<state, max_steps, block_reason, user_input_required,
                   next_step_prompt, memory, linkVars, previous_state,
                   results, pending, entry, cleanups, tool_calls,
                   step_result, events, last>>

\* BaseAgent.run, lines 208-219: the loop is over (its condition fails, or
\* the break of a blocked step), the budget is checked, state_context is
\* left and the sandbox cleanup is decided
loop_exit(f) ==
    /\ UNCHANGED <<runs, sideVars>>
    /\ pc[f] = "loop"
    /\ ~loop_continues(current_step, max_steps, state)
    /\ LET exhausted == budget_exhausted(current_step, max_steps, state)
           after == state_context_exit(previous_state[f], FALSE)
       IN  /\ current_step' = IF exhausted THEN 0 ELSE current_step
           /\ results' = [results EXCEPT ![f] =
                             IF exhausted
                             THEN Append(@, TerminatedRecord(max_steps))
                             ELSE @]
           /\ state' = after
           /\ pc' = [pc EXCEPT ![f] =
                        IF sandbox_cleanup_due(after) THEN "sandbox"
                        ELSE "finally"]
    /\ pending' = [pending EXCEPT ![f] = "return"]
    /\ UNCHANGED <<max_steps, block_reason, user_input_required,
                   next_step_prompt, memory, linkVars, previous_state,
                   entry, cleanups, tool_calls, step_result, events, last>>

\* BaseAgent.run, line 219: await SANDBOX_CLIENT.cleanup()
sandbox_cleanup(f) ==
    /\ UNCHANGED <<runs, sideVars>>
    /\ pc[f] = "sandbox"
    /\ cleanups' = [cleanups EXCEPT ![f].sandbox = @ + 1]
    /\ pc' = [pc EXCEPT ![f] = "finally"]
    /\ UNCHANGED <<agentVars, linkVars, previous_state, results, pending,
                   entry, tool_calls, step_result, events, last>>

\* MCPAgent.run, lines 335-337, and MCPAgent.cleanup: the finally clause
\* disconnects the link if it has a session; then run returns or raises
run_finally(f) ==
    /\ UNCHANGED <<runs, sideVars>>
    /\ pc[f] = "finally"
    /\ cleanups' = [cleanups EXCEPT ![f].link = @ + 1,
                                    ![f].disconnect = IF session THEN @ + 1
                                                      ELSE @]
    /\ session' = FALSE
    /\ tool_map' = IF session THEN disconnect_tool_map(tool_map) ELSE tool_map
    /\ pc' = [pc EXCEPT ![f] = "done"]
    /\ last' = <<"run", pending[f]>>
    /\ UNCHANGED <<agentVars, tool_schemas, live, previous_state, results,
                   pending, entry, tool_calls, step_result, events>>

\* ------------------------------------------------------------ step
\* MCPAgent._refresh_tools assigns self.tool_schemas and never the link's
\* tool_map: the tool_map after a pass is the tool_map before it
tool_map_after_refresh(m, current) == m

\* MCPAgent.think, lines 268-281: the link check and, when scheduled, the
\* reconciliation pass with its own check of the link's tools
think_check(f) ==
    /\ UNCHANGED <<runs, callVars>>
    /\ passes' = IF ~link_unusable(session, tool_map)
                    /\ refresh_due(current_step)
                 THEN passes \cup {current_step} ELSE passes
    /\ pc[f] = "step"
    /\ IF link_unusable(session, tool_map)
       THEN /\ state' = "FINISHED"
            /\ step_result' = [step_result EXCEPT ![f] = "no action needed"]
            /\ pc' = [pc EXCEPT ![f] = "stepdone"]
            /\ UNCHANGED <<memory, tool_schemas, tool_map>>
       ELSE IF refresh_due(current_step)
       THEN /\ tool_schemas' = refreshed_cache(tool_schemas, live)
            /\ memory' = refresh_messages(memory, tool_schemas, live)
            /\ tool_map' = tool_map_after_refresh(tool_map, live)
            /\ IF tool_map' = {}
               THEN /\ state' = "FINISHED"
                    /\ step_result' =
                           [step_result EXCEPT ![f] = "no action needed"]
                    /\ pc' = [pc EXCEPT ![f] = "stepdone"]
               ELSE /\ pc' = [pc EXCEPT ![f] = "llm"]
                    /\ UNCHANGED <<state, step_result>>
       ELSE /\ pc' = [pc EXCEPT ![f] = "llm"]
            /\ UNCHANGED <<state, step_result, memory, tool_schemas, tool_map>>
    /\ events' = [events EXCEPT ![f] =
                     IF state' = "FINISHED" /\ pc'[f] = "stepdone"
                     THEN @ \cup {"finish"} ELSE @]
    /\ UNCHANGED <<current_step, max_steps, block_reason, user_input_required,
                   next_step_prompt, session, live, previous_state, results,
                   pending, entry, cleanups, tool_calls, last>>

\* the decision engine answers (ToolCallAgent.think): the assistant message
\* is appended, with a text or with a tool-call request; then MCPAgent.think,
\* lines 286-304, asks the blocking classifier
llm(f, content, call) ==
    /\ UNCHANGED <<runs, sideVars>>
    /\ pc[f] = "llm"
    /\ memory' = update_memory(memory, "assistant", content)
    /\ tool_calls' = [tool_calls EXCEPT ![f] = call]
    /\ LET result == call # "none" \/ content # ""
           blocks == result /\ content # "" /\ needs_user_input(content)
       IN  /\ IF blocks
              THEN /\ state' = "BLOCKED"
                   /\ block_reason' = needs_user_input_reason(content)
                   /\ user_input_required' = TRUE
              ELSE UNCHANGED <<state, block_reason, user_input_required>>
           /\ IF call # "none"
              THEN /\ pc' = [pc EXCEPT ![f] = "act"]
                   /\ UNCHANGED step_result
              ELSE /\ pc' = [pc EXCEPT ![f] = "stepdone"]
                   /\ step_result' = [step_result EXCEPT ![f] =
                          IF result THEN content ELSE "no action needed"]
    /\ UNCHANGED <<current_step, max_steps, next_step_prompt, linkVars,
                   previous_state, results, pending, entry, cleanups, events,
                   last>>

\* the requested tool is executed through the link (ToolCallAgent.act): its
\* observation is appended as a tool message; a terminating tool that the
\* link knows finishes the agent
act(f) ==
    /\ UNCHANGED <<runs, sideVars>>
    /\ pc[f] = "act"
    /\ LET name == tool_calls[f]
           known == name \in tool_map
           obs == IF known THEN "obs" ELSE "unknown tool"
       IN  /\ memory' = update_memory(memory, "tool", obs)
           /\ step_result' = [step_result EXCEPT ![f] = obs]
           /\ state' = IF known /\ name = "terminate" THEN "FINISHED"
                       ELSE state
           /\ events' = [events EXCEPT ![f] =
                            IF known /\ name = "terminate"
                            THEN @ \cup {"finish"} ELSE @]
    /\ pc' = [pc EXCEPT ![f] = "stepdone"]
    /\ UNCHANGED <<current_step, max_steps, block_reason, user_input_required,
                   next_step_prompt, linkVars, previous_state, results,
                   pending, entry, cleanups, tool_calls, last>>

\* a step raises (the call of the decision engine fails): state_context's
\* except and finally
\* clauses run, lines 208-219 are skipped, and the fault goes on to
\* MCPAgent.run's finally clause
step_fault(f) ==
    /\ UNCHANGED <<runs, sideVars>>
    /\ pc[f] = "llm"
    /\ state' = state_context_exit(previous_state[f], TRUE)
    /\ pending' = [pending EXCEPT ![f] = "fault"]
    /\ events' = [events EXCEPT ![f] = @ \cup {"fault"}]
    /\ pc' = [pc EXCEPT ![f] = "finally"]
    /\ UNCHANGED <<current_step, max_steps, block_reason, user_input_required,
                   next_step_prompt, memory, linkVars, previous_state,
                   results, entry, cleanups, tool_calls, step_result, last>>

\* BaseAgent.run, lines 194-206: after the step, the block check, the
\* stuck check and the step record
step_done(f) ==
    /\ UNCHANGED <<runs, sideVars>>
    /\ pc[f] = "stepdone"
    /\ IF state = "BLOCKED"
       THEN /\ results' = [results EXCEPT ![f] =
                   LET r2 == Append(Append(@,
                                 StepRecord(current_step, step_result[f])),
                                 BlockedRecord(block_reason))
                   IN  IF user_input_required THEN Append(r2, WaitingRecord)
                       ELSE r2]
            /\ UNCHANGED next_step_prompt
       ELSE /\ next_step_prompt' = IF is_stuck(memory)
                                   THEN handle_stuck_state(next_step_prompt)
                                   ELSE next_step_prompt
            /\ results' = [results EXCEPT ![f] =
                   Append(@, StepRecord(current_step, step_result[f]))]
    /\ pc' = [pc EXCEPT ![f] = "loop"]
    /\ UNCHANGED <<state, current_step, max_steps, block_reason,
                   user_input_required, memory, linkVars, previous_state,
                   pending, entry, cleanups, tool_calls, step_result, events,
                   last>>

\* the caller awaits each run before it makes the next call
run(request) == NoActiveFrame /\ run_call(1, request)

\* ------------------------------------------------------------ specification
\* one caller that awaits each run before the next call (run_mcp.py,
\* interactive_mcp.py)
Next ==
    \/ \E r \in Reasons, b \in BOOLEAN : block(r, b)
    \/ \E u \in UserInputs : unblock(u)
    \/ \E ok \in BOOLEAN : initialize(ok)
    \/ \E l \in LiveSets : server_change(l)
    \/ \E q \in Requests : run(q)
    \/ \E f \in Frames : loop_step(f)
    \/ \E f \in Frames : loop_exit(f)
    \/ \E f \in Frames : sandbox_cleanup(f)
    \/ \E f \in Frames : run_finally(f)
    \/ \E f \in Frames : think_check(f)
    \/ \E f \in Frames, a \in Answers : llm(f, a[1], a[2])
    \/ \E f \in Frames : act(f)
    \/ \E f \in Frames : step_fault(f)
    \/ \E f \in Frames : step_done(f)

Spec == Init /\ [][Next]_vars

\* the event loop resumes a run whose awaited call has completed, and every
\* step returns or raises: each part of a run that can go on does go on.
\* The calls of the owner (block, unblock, initialize, run) and the changes
\* of the server may or may not happen.
RunProgress(f) ==
    /\ WF_vars(loop_step(f))
    /\ WF_vars(loop_exit(f))
    /\ WF_vars(sandbox_cleanup(f))
    /\ WF_vars(run_finally(f))
    /\ WF_vars(think_check(f))
    /\ WF_vars((\E a \in Answers : llm(f, a[1], a[2])) \/ step_fault(f))
    /\ WF_vars(act(f))
    /\ WF_vars(step_done(f))

SpecFair == Init /\ [][Next]_vars /\ \A f \in Frames : RunProgress(f)

TypeOK ==
    /\ state \in AgentState
    /\ current_step \in 0..max_steps
    /\ block_reason \in Reasons \cup {Null}
    /\ user_input_required \in BOOLEAN
    /\ session \in BOOLEAN
    /\ tool_map \subseteq ToolNames
    /\ live \in LiveSets
    /\ tool_schemas \in LiveSets
    /\ runs \in 0..MaxRuns

\* ------------------------------------------------------------ two callers
\* the run of frame f is suspended inside a step: it awaits the decision
\* engine or a tool
Suspended(f) == pc[f] \in {"llm", "act"}

\* what the decision engine returns while two tasks share the agent: a
\* text, or the request of the terminating tool
ConcAnswers == {<<"A", "none">>, <<"", "terminate">>}

\* the first task calls run, once
run_first(request) == runs = 0 /\ run(request)

\* a second task calls run on the agent while the run of frame 1 is
\* suspended inside a step
run_concurrent(request) == Suspended(1) /\ run_call(2, request)

\* BaseAgent.unblock, called by another task while a run is suspended
\* inside a step
unblock_in_step(user_input) ==
    /\ UNCHANGED <<runs, sideVars>>
    /\ \E f \in Frames : Suspended(f)
    /\ IF state # "BLOCKED"
       THEN /\ last' = <<"unblock", "ignored">>
            /\ UNCHANGED agentVars
       ELSE /\ user_input # "" => Len(memory) <= MaxLogAtCall
            /\ memory' = IF input_recorded(user_input)
                         THEN update_memory(memory, "user", user_input)
                         ELSE memory
            /\ state' = "RUNNING"
            /\ block_reason' = Null
            /\ user_input_required' = FALSE
            /\ last' = <<"unblock", "done">>
            /\ UNCHANGED <<current_step, max_steps, next_step_prompt>>
    /\ UNCHANGED <<linkVars, frameVars>>

InitConc ==
    /\ NewAgent
    /\ max_steps = MaxConcSteps
    /\ live = [n \in ToolNames |-> "s1"]
    /\ NoCalls
    /\ NewFederation

\* two tasks on one event loop share the agent: a task may call run, block
\* or unblock whenever the other one is suspended
NextConc ==
    \/ \E r \in Reasons : block(r, TRUE)
    \/ \E u \in UserInputs : unblock(u)
    \/ \E u \in UserInputs : unblock_in_step(u)
    \/ \E ok \in BOOLEAN : initialize(ok)
    \/ \E q \in Requests : run_first(q)
    \/ \E q \in Requests : run_concurrent(q)
    \/ \E f \in Frames : loop_step(f)
    \/ \E f \in Frames : loop_exit(f)
    \/ \E f \in Frames : sandbox_cleanup(f)
    \/ \E f \in Frames : run_finally(f)
    \/ \E f \in Frames : think_check(f)
    \/ \E f \in Frames, a \in ConcAnswers : llm(f, a[1], a[2])
    \/ \E f \in Frames : act(f)
    \/ \E f \in Frames : step_fault(f)
    \/ \E f \in Frames : step_done(f)

SpecConc == InitConc /\ [][NextConc]_vars

\* ------------------------------------------------ the reconciler alone
\* MCPAgent._refresh_tools, called once outside a step; refreshed keeps what
\* the pass was called with and what it computed
refresh_tools ==
    /\ NoActiveFrame
    /\ ~refreshed.done
    /\ IF ~session
       THEN /\ refreshed' = [NotRefreshed EXCEPT !.done = TRUE,
                                                 !.cache = tool_schemas,
                                                 !.current = live]
            /\ UNCHANGED <<tool_schemas, memory>>
       ELSE /\ refreshed' =
                   [done |-> TRUE, session |-> TRUE,
                    added |-> added_tools(tool_schemas, live),
                    removed |-> removed_tools(tool_schemas, live),
                    changed |-> changed_tools(tool_schemas, live),
                    cache |-> tool_schemas, current |-> live]
            /\ tool_schemas' = refreshed_cache(tool_schemas, live)
            /\ memory' = refresh_messages(memory, tool_schemas, live)
    /\ UNCHANGED <<state, current_step, max_steps, block_reason,
                   user_input_required, next_step_prompt, session, tool_map,
                   live, frameVars, last, runs, stuck, fedVars, passes,
                   twoVars>>

\* the server changes the tools it exposes, before the pass
server_set(new_live) ==
    /\ session
    /\ ~refreshed.done
    /\ last = <<"initialize", "done">>
    /\ new_live # live
    /\ live' = new_live
    /\ last' = <<"server_set">>
    /\ UNCHANGED <<agentVars, session, tool_map, tool_schemas, frameVars,
                   runs, sideVars>>

InitReconcile ==
    /\ NewAgent
    /\ max_steps = 1
    /\ live \in ToolSets
    /\ NoCalls
    /\ NewFederation

\* the link is connected, the server changes, the reconciler is called
NextReconcile ==
    \/ \E ok \in BOOLEAN : initialize(ok)
    \/ \E l \in ToolSets : server_set(l)
    \/ refresh_tools

SpecReconcile == InitReconcile /\ [][NextReconcile]_vars

\* ------------------------------------------------ the refresh schedule
\* an MCPAgent with its own step budget (max_steps of MCPAgent), whose
\* decision engine always answers with the same text; a step may raise
InitSchedule ==
    /\ NewAgent
    /\ max_steps = mcp_max_steps
    /\ live \in InitialTools
    /\ NoCalls
    /\ NewFederation

NextSchedule ==
    \/ \E ok \in BOOLEAN : initialize(ok)
    \/ \E q \in Requests : run(q)
    \/ \E f \in Frames : loop_step(f)
    \/ \E f \in Frames : loop_exit(f)
    \/ \E f \in Frames : sandbox_cleanup(f)
    \/ \E f \in Frames : run_finally(f)
    \/ \E f \in Frames : think_check(f)
    \/ \E f \in Frames : llm(f, "A", "none")
    \/ \E f \in Frames : step_fault(f)
    \/ \E f \in Frames : step_done(f)

SpecSchedule == InitSchedule /\ [][NextSchedule]_vars

\* ------------------------------------------------ two agents, one sandbox
\* app_v4.py starts one thread with one MCPRunner per chat request; every
\* agent of the process imports the same SANDBOX_CLIENT (base.py, line 9).
\* MCPAgent.initialize of agent a
agent_initialize(a) ==
    /\ agents[a].pc = "idle"
    /\ ~agents[a].session
    /\ agents' = [agents EXCEPT ![a].session = TRUE]
    /\ UNCHANGED <<sandbox, nonFedVars_but_two, fedVars>>

\* BaseAgent.run of agent a, lines 170-184
agent_run(a) ==
    /\ agents[a].pc = "idle"
    /\ run_accepts(agents[a].state)
    /\ agents' = [agents EXCEPT ![a].previous_state =
                                    IF agents[a].state = "BLOCKED"
                                    THEN "RUNNING" ELSE agents[a].state,
                                ![a].state = "RUNNING",
                                ![a].blocked = FALSE,
                                ![a].pc = "loop"]
    /\ UNCHANGED <<sandbox, nonFedVars_but_two, fedVars>>

\* one iteration of the loop of agent a, lines 185-206; outcome is what the
\* step did to the state, uses whether a tool of the step worked in the
\* sandbox (the sandbox client creates its sandbox on first use)
agent_step(a, outcome, uses) ==
    /\ agents[a].pc = "loop"
    /\ loop_continues(agents[a].current_step, MaxTwoSteps, agents[a].state)
    /\ agents' = [agents EXCEPT ![a].current_step = @ + 1,
                                ![a].state = IF outcome = "none" THEN @
                                             ELSE outcome]
    /\ sandbox' = IF uses
                  THEN [sandbox EXCEPT !.created = TRUE,
                                       !.users = @ \cup {a}]
                  ELSE sandbox
    /\ UNCHANGED <<nonFedVars_but_two, fedVars>>

\* the loop of agent a is over, lines 208-218
agent_loop_exit(a) ==
    /\ agents[a].pc = "loop"
    /\ ~loop_continues(agents[a].current_step, MaxTwoSteps, agents[a].state)
    /\ LET exhausted == budget_exhausted(agents[a].current_step, MaxTwoSteps,
                                         agents[a].state)
           after == state_context_exit(agents[a].previous_state, FALSE)
       IN  agents' = [agents EXCEPT
                         ![a].current_step = IF exhausted THEN 0 ELSE @,
                         ![a].state = after,
                         ![a].blocked = (agents[a].state = "BLOCKED"),
                         ![a].pc = IF sandbox_cleanup_due(after)
                                   THEN "sandbox" ELSE "finally"]
    /\ sandbox' = [sandbox EXCEPT !.users = @ \ {a}]
    /\ UNCHANGED <<nonFedVars_but_two, fedVars>>

\* BaseAgent.run, line 219: await SANDBOX_CLIENT.cleanup(), on the one
\* client of the process; when the loop of a did not end on a block, the
\* agents still in their loop whose sandbox it was are recorded in taken
agent_sandbox_cleanup(a) ==
    /\ agents[a].pc = "sandbox"
    /\ sandbox' = [created |-> FALSE, users |-> {},
                   taken |-> sandbox.taken \cup
                       (IF sandbox.created /\ ~agents[a].blocked
                        THEN sandbox.users \ {a} ELSE {})]
    /\ agents' = [agents EXCEPT ![a].pc = "finally"]
    /\ UNCHANGED <<nonFedVars_but_two, fedVars>>

\* MCPAgent.run, lines 335-337: the link of agent a is disconnected
agent_finally(a) ==
    /\ agents[a].pc = "finally"
    /\ agents' = [agents EXCEPT ![a].session = FALSE, ![a].pc = "idle"]
    /\ UNCHANGED <<sandbox, nonFedVars_but_two, fedVars>>

StepOutcomes == {"none", "FINISHED", "BLOCKED"}

InitTwo ==
    /\ NewAgent
    /\ max_steps = MaxTwoSteps
    /\ live = NoTools
    /\ NoCalls
    /\ NewFederation

NextTwo ==
    \/ \E a \in AgentIds : agent_initialize(a)
    \/ \E a \in AgentIds : agent_run(a)
    \/ \E a \in AgentIds, o \in StepOutcomes, u \in BOOLEAN :
           agent_step(a, o, u)
    \/ \E a \in AgentIds : agent_loop_exit(a)
    \/ \E a \in AgentIds : agent_sandbox_cleanup(a)
    \/ \E a \in AgentIds : agent_finally(a)

SpecTwo == InitTwo /\ [][NextTwo]_vars

\* ------------------------------------------------ the stuck detector alone
\* BaseAgent.run, lines 202-203, on a log that is given: is_stuck is asked
\* and, when it says so, handle_stuck_state is called
ask_stuck ==
    /\ NoActiveFrame
    /\ ~stuck.asked
    /\ stuck' = [asked |-> TRUE, verdict |-> is_stuck(memory)]
    /\ next_step_prompt' = IF is_stuck(memory)
                           THEN handle_stuck_state(next_step_prompt)
                           ELSE next_step_prompt
    /\ UNCHANGED <<state, current_step, max_steps, block_reason,
                   user_input_required, memory, linkVars, frameVars, last,
                   runs, refreshed, fedVars, passes, twoVars>>

\* an agent that is constructed and left alone, but for its log
InitStuck ==
    /\ memory \in StuckLogs
    /\ state = "IDLE"
    /\ current_step = 0
    /\ max_steps = 1
    /\ block_reason = Null
    /\ user_input_required = FALSE
    /\ next_step_prompt = 0
    /\ session = FALSE
    /\ tool_map = {}
    /\ tool_schemas = NoTools
    /\ live = NoTools
    /\ last = <<"new">>
    /\ runs = 0
    /\ events = [f \in Frames |-> {}]
    /\ pc = [f \in Frames |-> "idle"]
    /\ previous_state = [f \in Frames |-> "IDLE"]
    /\ results = [f \in Frames |-> <<>>]
    /\ pending = [f \in Frames |-> Null]
    /\ entry = [f \in Frames |-> Snapshot]
    /\ cleanups = [f \in Frames |-> NoCleanups]
    /\ tool_calls = [f \in Frames |-> "none"]
    /\ step_result = [f \in Frames |-> ""]
    /\ NoCalls
    /\ NewFederation

NextStuck == ask_stuck

SpecStuck == InitStuck /\ [][NextStuck]_vars

\* ------------------------------------------------ federation operations
\* MCPClients.disconnect: the session is closed and the link's tools dropped
disconnect_link(link) == [session |-> FALSE, tool_map |-> {}]

\* MCPClients.connect_sse / connect_stdio: a session and the server's tools
connect_link(server_tools) == [session |-> TRUE, tool_map |-> server_tools]

\* an add_client that stores the new link in the registry before it connects
add_client_registering_first(name, connection_type, has_param, reachable, server_tools) ==
    /\ fed_pc = FedIdle
    /\ Len(links) < MaxLinks
    /\ IF connection_type \notin {"sse", "stdio"} \/ ~has_param \/ ~reachable
       THEN /\ links' = Append(links, disconnect_link(connect_link({})))
            /\ clients' = set_client(clients, name, Len(links'))
            /\ fed_out' = FedOut("add_client", name, Raised)
            /\ UNCHANGED fed_tool_map
       ELSE /\ links' = Append(links, connect_link(server_tools))
            /\ clients' = set_client(clients, name, Len(links'))
            /\ fed_tool_map' = update_tool_map(clients', links')
            /\ fed_out' = FedOut("add_client", name,
                                 Outcome("client", Len(links'), <<>>))
    /\ UNCHANGED <<fed_pc, nonFedVars>>

\* MultiMCPClients.add_client; has_param says whether the parameter the
\* transport needs (server_url, command) was passed, reachable whether the
\* connection attempt succeeds, server_tools what the server exposes
add_client(name, connection_type, has_param, reachable, server_tools) ==
    /\ fed_pc = FedIdle
    /\ IF connection_type \notin {"sse", "stdio"} \/ ~has_param \/ ~reachable
       THEN /\ fed_out' = FedOut("add_client", name, Raised)
            /\ UNCHANGED <<clients, links, fed_tool_map>>
       ELSE /\ Len(links) < MaxLinks
            /\ links' = Append(links, connect_link(server_tools))
            /\ clients' = set_client(clients, name, Len(links'))
            /\ fed_tool_map' = update_tool_map(clients', links')
            /\ fed_out' = FedOut("add_client", name,
                                 Outcome("client", Len(links'), <<>>))
    /\ UNCHANGED <<fed_pc, nonFedVars>>

\* MultiMCPClients.execute_tool
execute_tool(name) ==
    /\ fed_pc = FedIdle
    /\ fed_out' = FedOut("execute_tool", name,
                         execute_tool_result(clients, links, fed_tool_map,
                                             name))
    /\ UNCHANGED <<clients, links, fed_tool_map, fed_pc, nonFedVars>>

\* MultiMCPClients.disconnect_client, lines 154-155: an unknown name returns
\* False; a known one has its link disconnected, which is awaited
disconnect_client(name) ==
    /\ fed_pc = FedIdle
    /\ IF registered(clients, name)
       THEN /\ links' = [links EXCEPT
                            ![clients[client_index(clients, name)].link] =
                                disconnect_link(@)]
            /\ fed_pc' = [op |-> "disconnect_client", name |-> name,
                          todo |-> <<>>]
            /\ UNCHANGED fed_out
       ELSE /\ fed_out' = FedOut("disconnect_client", name,
                                 Outcome("False", 0, <<>>))
            /\ UNCHANGED <<links, fed_pc>>
    /\ UNCHANGED <<clients, fed_tool_map, nonFedVars>>

\* MultiMCPClients.disconnect_client, lines 156-159: the entry is deleted,
\* the namespace rebuilt, True returned
disconnect_client_return ==
    /\ fed_pc.op = "disconnect_client"
    /\ clients' = del_client(clients, fed_pc.name)
    /\ fed_tool_map' = update_tool_map(clients', links)
    /\ fed_out' = FedOut("disconnect_client", fed_pc.name,
                         Outcome("True", 0, <<>>))
    /\ fed_pc' = FedIdle
    /\ UNCHANGED <<links, nonFedVars>>

\* MultiMCPClients.disconnect_all, line 137: the list of the clients is
\* taken
disconnect_all ==
    /\ fed_pc = FedIdle
    /\ fed_pc' = [op |-> "disconnect_all", name |-> <<>>,
                  todo |-> [i \in DOMAIN clients |-> clients[i].link]]
    /\ UNCHANGED <<clients, links, fed_tool_map, fed_out, nonFedVars>>

\* MultiMCPClients.disconnect_all, line 138: the next client of the list is
\* disconnected, which is awaited
disconnect_all_next ==
    /\ fed_pc.op = "disconnect_all"
    /\ fed_pc.todo # <<>>
    /\ links' = [links EXCEPT ![Head(fed_pc.todo)] = disconnect_link(@)]
    /\ fed_pc' = [fed_pc EXCEPT !.todo = Tail(@)]
    /\ UNCHANGED <<clients, fed_tool_map, fed_out, nonFedVars>>

\* MultiMCPClients.disconnect_all, lines 141-143: the registry and the
\* namespace are emptied
disconnect_all_return ==
    /\ fed_pc.op = "disconnect_all"
    /\ fed_pc.todo = <<>>
    /\ clients' = <<>>
    /\ fed_tool_map' = NoNamespace
    /\ fed_out' = FedOut("disconnect_all", <<>>, Outcome("None", 0, <<>>))
    /\ fed_pc' = FedIdle
    /\ UNCHANGED <<links, nonFedVars>>

\* MultiMCPClients.get_client(name), and the owner of the federation
\* disconnects the link it got: the federation is not told
get_client_disconnect(name) ==
    /\ fed_pc = FedIdle
    /\ registered(clients, name)
    /\ links[clients[client_index(clients, name)].link].session
    /\ links' = [links EXCEPT
                    ![clients[client_index(clients, name)].link] =
                        disconnect_link(@)]
    /\ fed_out' = FedOut("get_client", name,
                         Outcome("client",
                                 clients[client_index(clients, name)].link,
                                 <<>>))
    /\ UNCHANGED <<clients, fed_tool_map, fed_pc, nonFedVars>>

\* an agent that is constructed and left alone
ParkedAgent == NewAgent /\ max_steps = 1 /\ live = NoTools

InitFed == ParkedAgent /\ NoCalls /\ NewFederation

\* one owner of the federation that awaits each operation before the next
NextFed ==
    \/ \E name \in LinkIds, t \in ConnectionTypes, p \in BOOLEAN,
          r \in BOOLEAN, tools \in ServerTools :
              add_client(name, t, p, r, tools)
    \/ \E name \in ExecNames : execute_tool(name)
    \/ \E name \in LinkIds : disconnect_client(name)
    \/ disconnect_client_return
    \/ disconnect_all
    \/ disconnect_all_next
    \/ disconnect_all_return
    \/ \E name \in LinkIds : get_client_disconnect(name)

SpecFed == InitFed /\ [][NextFed]_vars

TypeOKFed ==
    /\ Len(links) <= MaxLinks
    /\ \A i \in DOMAIN clients :
           clients[i].name \in LinkIds /\ clients[i].link \in DOMAIN links
    /\ \A k \in DOMAIN fed_tool_map : fed_tool_map[k].link \in DOMAIN links
    /\ fed_pc.op \in {"none", "disconnect_client", "disconnect_all"}

\* ------------------------------------------------------------ claims
\* the number of loop iterations a run recorded
StepCount(recs) == Cardinality({i \in 1..Len(recs) : recs[i].kind = "Step"})
\* the run's loop ended on a blocked step
HasBlocked(recs) == \E i \in 1..Len(recs) : recs[i].kind = "Blocked"
\* run has just returned or raised: no call has been made since
JustEnded(f) == pc[f] = "done" /\ last[1] = "run"

\* C1: a run called on an IDLE agent with current_step 0 and max_steps N,
\* none of whose steps blocks, finishes or raises, returns after exactly N
\* steps, in state IDLE with current_step 0, and the last line of its
\* summary is the max-steps termination record.
C1_RunExhaustsBudget ==
    \A f \in Frames :
        ( /\ JustEnded(f)
          /\ entry[f].state = "IDLE"
          /\ entry[f].current_step = 0
          /\ events[f] = {} )
        => /\ pending[f] = "return"
           /\ StepCount(results[f]) = max_steps
           /\ state = "IDLE"
           /\ current_step = 0
           /\ Summary(results[f])[Len(Summary(results[f]))]
                  = TerminatedRecord(max_steps)

C1_Witness ==
    /\ JustEnded(1)
    /\ entry[1].state = "IDLE"
    /\ entry[1].current_step = 0
    /\ events[1] = {}
    /\ max_steps >= 3
    /\ StepCount(results[1]) = max_steps

\* C2: when a step called block(reason, ...) and the loop stopped on it,
\* the agent is BLOCKED with block_reason = reason when run returns.
C2_BlockedWhenRunReturns ==
    \A f \in Frames :
        (JustEnded(f) /\ HasBlocked(results[f]))
        => /\ state = "BLOCKED"
           /\ \E i \in 1..Len(results[f]) :
                  /\ results[f][i].kind = "Blocked"
                  /\ results[f][i].text = block_reason

\* C3: after unblock on a BLOCKED agent, the next run is accepted (it does
\* not fail with the invalid-state error).
C3_ResumeAccepted ==
    [][ (last = <<"unblock", "done">> /\ \E q \in Requests : run(q))
        => pending'[1] # "invalid_state" ]_vars

\* C4: between public operations, block_reason is non-null iff the state
\* is BLOCKED.
C4_BlockReasonIffBlocked ==
    NoActiveFrame => ((block_reason # Null) <=> (state = "BLOCKED"))

\* C5: a run called in a state other than IDLE and BLOCKED fails with the
\* invalid-state error, records no step, and leaves the message log, state,
\* current_step, block_reason and user_input_required as they were.
C5_RejectedRunChangesNothing ==
    \A f \in Frames :
        (pc[f] # "idle" /\ ~(entry[f].state \in {"IDLE", "BLOCKED"}))
        => /\ pending[f] = "invalid_state"
           /\ pc[f] \in {"finally", "done"}
           /\ results[f] = <<>>
           /\ last[1] = "run" =>
                  /\ state = entry[f].state
                  /\ current_step = entry[f].current_step
                  /\ block_reason = entry[f].block_reason
                  /\ user_input_required = entry[f].user_input_required
                  /\ memory = entry[f].memory

C5_Witness ==
    /\ JustEnded(1)
    /\ last = <<"run", "invalid_state">>
    /\ entry[1].state = "RUNNING"
    /\ memory # <<>>

\* C6: after a step fault has propagated out of run, the state is the
\* state the agent had when run was called, and it is not ERROR.
C6_FaultRestoresEntryState ==
    \A f \in Frames :
        (JustEnded(f) /\ pending[f] = "fault")
        => state = entry[f].state /\ state # "ERROR"

\* C7: a run whose loop stopped because the agent became BLOCKED calls no
\* sandbox cleanup and does not disconnect the tool-server link.
C7_BlockedExitKeepsResources ==
    \A f \in Frames :
        (pc[f] = "done" /\ HasBlocked(results[f]))
        => cleanups[f].sandbox = 0 /\ cleanups[f].disconnect = 0

\* C8: a run that leaves the loop for a non-blocked reason (finish, budget
\* exhaustion, step fault) has triggered the cleanup of the sandbox and of
\* the session exactly once each.
C8_CleanupOnceOnNonBlockedExit ==
    \A f \in Frames :
        ( /\ pc[f] = "done"
          /\ pending[f] \in {"return", "fault"}
          /\ ~HasBlocked(results[f]) )
        => cleanups[f].sandbox = 1 /\ cleanups[f].link = 1

\* C9: unblock on an agent that is not BLOCKED changes neither state,
\* block_reason, user_input_required, current_step nor the message log,
\* whatever user input is passed.
C9_UnblockIgnored ==
    [][ (state # "BLOCKED" /\ \E u \in UserInputs : unblock(u))
        => UNCHANGED <<state, block_reason, user_input_required,
                       current_step, memory>> ]_vars

C9_Witness ==
    /\ last = <<"unblock", "ignored">>
    /\ state = "RUNNING"
    /\ block_reason # Null
    /\ memory # <<>>

\* C10: in a step whose scheduled reconciliation pass found the live tool
\* set empty (the cache is then empty), the decision engine is not invoked.
C10_EmptyRefreshFinishes ==
    \A f \in Frames :
        (pc[f] = "llm" /\ refresh_due(current_step))
        => DOMAIN tool_schemas # {}

\* C11: a reconciliation pass on a connected link with cache C and live set
\* L computes added = names(L) - names(C), removed = names(C) - names(L),
\* changed = the names in both whose schemas differ, and leaves the cache
\* equal to L; for C = {a:s1, b:s2} and L = {a:s1, c:s3} that is added {c},
\* removed {b}, changed {} and cache {a:s1, c:s3}.
C11_Example_C == [n \in {"a", "b"} |-> IF n = "a" THEN "s1" ELSE "s2"]
C11_Example_L == [n \in {"a", "c"} |-> IF n = "a" THEN "s1" ELSE "s3"]
C11_ReconcileDiff ==
    (refreshed.done /\ refreshed.session) =>
        LET C == refreshed.cache
            L == refreshed.current
        IN  /\ refreshed.added = {n \in RefreshNames :
                                     n \in DOMAIN L /\ n \notin DOMAIN C}
            /\ refreshed.removed = {n \in RefreshNames :
                                       n \in DOMAIN C /\ n \notin DOMAIN L}
            /\ refreshed.changed = {n \in RefreshNames :
                                       /\ n \in DOMAIN C
                                       /\ n \in DOMAIN L
                                       /\ L[n] # C[n]}
            /\ tool_schemas = L
            /\ (C = C11_Example_C /\ L = C11_Example_L) =>
                   /\ refreshed.added = {"c"}
                   /\ refreshed.removed = {"b"}
                   /\ refreshed.changed = {}
                   /\ DOMAIN tool_schemas = {"a", "c"}
                   /\ tool_schemas["a"] = "s1"
                   /\ tool_schemas["c"] = "s3"

C11_Witness ==
    /\ refreshed.done
    /\ refreshed.session
    /\ refreshed.cache = C11_Example_C
    /\ refreshed.current = C11_Example_L
    /\ tool_schemas = C11_Example_L

\* what is left of name after the prefix id and the separator
LocalOf(id, name) == SubSeq(name, Len(id) + 2, Len(name))
\* name is id, the separator, and a local name
IsPrefixedBy(id, name) ==
    /\ Len(name) > Len(id) + 1
    /\ SubSeq(name, 1, Len(id)) = id
    /\ name[Len(id) + 1] = Dot
\* execute_tool has just returned
JustExecuted == fed_pc = FedIdle /\ fed_out.op = "execute_tool"

\* C12: execute of a name 'L.t' where L is a registered link dispatches to
\* link L, with t, and to no other link; execute of a name without
\* separator dispatches to the first link, in registration order, whose
\* local tool set contains the name.
C12_Routing ==
    JustExecuted =>
        /\ \A i \in DOMAIN clients :
               IsPrefixedBy(clients[i].name, fed_out.name) =>
                   fed_out.returned =
                       Dispatched(clients[i].link,
                                  LocalOf(clients[i].name, fed_out.name))
        /\ ~has_separator(fed_out.name) =>
               \A i \in DOMAIN clients :
                   ( /\ fed_out.name \in links[clients[i].link].tool_map
                     /\ \A j \in 1..(i - 1) :
                            fed_out.name \notin links[clients[j].link].tool_map )
                   => fed_out.returned = Dispatched(clients[i].link,
                                                    fed_out.name)

\* C13: add_client with a name that is already registered fails, and the
\* link registered before, the registry and the flattened namespace are
\* left as they were.
C13_DuplicateAddFails ==
    [][ \A name \in LinkIds :
          ( /\ registered(clients, name)
            /\ \E t \in ConnectionTypes, p \in BOOLEAN, r \in BOOLEAN,
                  tools \in ServerTools : add_client(name, t, p, r, tools) )
          => /\ fed_out'.returned = Raised
             /\ UNCHANGED <<clients, fed_tool_map>> ]_vars

\* C14: within one federation, two distinct (link name, local tool name)
\* pairs never yield the same namespaced name, names with the separator
\* included.
C14_NamespacedNamesUnique ==
    \A i \in DOMAIN clients, j \in DOMAIN clients :
        \A t \in links[clients[i].link].tool_map,
           u \in links[clients[j].link].tool_map :
            <<clients[i].name, t>> # <<clients[j].name, u>>
            => prefixed_name(clients[i].name, t)
                   # prefixed_name(clients[j].name, u)

\* C15: disconnect_client(name) returns True iff name was registered; after
\* True the registry lacks name, the namespace has no descriptor owned by
\* its link, and every descriptor of the other connected links is retained;
\* when it returns False the registry and the namespace are unchanged.
C15_RemoveLink ==
    /\ [][ \A name \in LinkIds :
              disconnect_client(name) =>
                  IF registered(clients, name)
                  THEN fed_pc'.op = "disconnect_client"
                  ELSE /\ fed_out'.returned.kind = "False"
                       /\ UNCHANGED <<clients, fed_tool_map>> ]_vars
    /\ [][ disconnect_client_return =>
              LET removed == clients[client_index(clients, fed_pc.name)].link
              IN  /\ registered(clients, fed_pc.name)
                  /\ fed_out'.returned.kind = "True"
                  /\ ~registered(clients', fed_pc.name)
                  /\ \A k \in DOMAIN fed_tool_map' :
                         fed_tool_map'[k].link # removed
                  /\ \A k \in DOMAIN fed_tool_map :
                         ( /\ fed_tool_map[k].link # removed
                           /\ links[fed_tool_map[k].link].session )
                         => /\ k \in DOMAIN fed_tool_map'
                            /\ fed_tool_map'[k] = fed_tool_map[k]
                  /\ \A i \in DOMAIN clients' :
                         links[clients'[i].link].session =>
                             \A t \in links[clients'[i].link].tool_map :
                                 prefixed_name(clients'[i].name, t)
                                     \in DOMAIN fed_tool_map' ]_vars

C15_Witness ==
    /\ fed_pc = FedIdle
    /\ fed_out.op = "disconnect_client"
    /\ fed_out.returned.kind = "True"
    /\ clients # <<>>
    /\ ~registered(clients, fed_out.name)
    /\ DOMAIN fed_tool_map # {}

\* the name matches no registered link prefix, no link's local tool and no
\* entry of the flattened namespace
NoMatch(name) ==
    /\ \A i \in DOMAIN clients : ~IsPrefixedBy(clients[i].name, name)
    /\ \A i \in DOMAIN clients : name \notin links[clients[i].link].tool_map
    /\ name \notin DOMAIN fed_tool_map

C17_StuckIff ==
    stuck.asked =>
        /\ stuck.verdict <=>
               /\ memory # <<>>
               /\ memory[Len(memory)].role = "assistant"
               /\ memory[Len(memory)].content # ""
               /\ Cardinality({i \in 1..(Len(memory) - 1) :
                       /\ memory[i].role = "assistant"
                       /\ memory[i].content = memory[Len(memory)].content})
                      >= duplicate_threshold
        /\ memory = <<Message("assistant", "A"), Message("assistant", "B"),
                      Message("assistant", "A")>> => ~stuck.verdict
        /\ memory = <<Message("assistant", "A"), Message("assistant", "B"),
                      Message("assistant", "A"), Message("assistant", "A")>>
               => stuck.verdict

\* a run is between its entry into the loop and its return
InRun(f) == pc[f] \in {"loop", "step", "llm", "act", "stepdone", "sandbox",
                       "finally"}

InLoop(f) == pc[f] \in {"loop", "step", "llm", "act", "stepdone"}

\* C19: under any interleaving of run, block and unblock calls at the
\* suspension points of a step, at most one run is inside the step loop: a
\* run called while another run is suspended inside a step is rejected with
\* the invalid-state error.
C19_OneRunInLoop ==
    /\ Cardinality({f \in Frames : InLoop(f)}) <= 1
    /\ pc[2] # "idle" => pending[2] = "invalid_state"

\* C20: once a step has signalled completion, the loop executes no further
\* step, and the agent is FINISHED when run returns.
C20_FinishedIsTerminal ==
    \A f \in Frames :
        "finish" \in events[f] =>
            /\ pc[f] \notin {"step", "llm", "act"}
            /\ (JustEnded(f) /\ pending[f] = "return") => state = "FINISHED"

\* the log a is still present, in order, at the front of the log b
LogPrefix(a, b) == Len(a) <= Len(b) /\ SubSeq(b, 1, Len(a)) = a

\* C21: when run is called again right after a run that was entered with a
\* connected link has returned (no initialize in between), the log of the
\* earlier run is still present and the link is still connected, so the
\* second run can reach the decision engine.
C21_SecondRunStillConnected ==
    [][ ( /\ last = <<"run", "return">>
          /\ entry[1].session
          /\ \E q \in Requests : run(q) )
        => /\ LogPrefix(entry[1].memory, memory')
           /\ session' ]_vars

\* C22: run returns the sentinel 'No steps executed' exactly when the loop
\* body executed no iteration in that invocation.
C22_SentinelIffNoIteration ==
    \A f \in Frames :
        (JustEnded(f) /\ pending[f] = "return")
        => ( (Summary(results[f]) = <<NoStepsExecuted>>)
             <=> (StepCount(results[f]) = 0) )

\* C23: the message log is append-only: over every step of run, block,
\* unblock, the reconciliation pass and the stuck handling, the log before
\* the step is a prefix of the log after it.
C23_LogAppendOnly == [][LogPrefix(memory, memory')]_vars

C23_Witness ==
    /\ JustEnded(1)
    /\ runs = 2
    /\ entry[1].state = "BLOCKED"
    /\ Len(entry[1].memory) >= 2
    /\ Len(memory) > Len(entry[1].memory) + 1
    /\ LogPrefix(entry[1].memory, memory)
    /\ next_step_prompt > 0
    /\ \E i \in 1..Len(memory) : memory[i].content = "New tools available"

\* the run of frame f has left its loop and returns; no call has been made
\* since
LoopLeft(f) ==
    /\ pending[f] = "return"
    /\ pc[f] \in {"sandbox", "finally"} \/ JustEnded(f)
\* a step of the run of frame f called block and left the agent BLOCKED
BlockedInStep(f) == "block" \in events[f] /\ ~("finish" \in events[f])
\* the records of a blocked step
BlockedTail(f) ==
    <<StepRecord(current_step, step_result[f]), BlockedRecord(block_reason)>>
    \o (IF user_input_required THEN <<WaitingRecord>> ELSE <<>>)

\* C24: when a step leaves the agent BLOCKED, the loop stops with no further
\* step; the summary ends with that step's 'Step N' record, the 'Blocked:
\* <reason>' record and, iff user_input_required, the waiting notice; it has
\* no termination record; current_step keeps its value (it is not reset to
\* 0), also when it equals max_steps.
C24_BlockedStepStopsLoop ==
    \A f \in Frames :
        (LoopLeft(f) /\ BlockedInStep(f))
        => LET r == results[f]
               t == BlockedTail(f)
           IN  /\ Len(r) >= Len(t)
               /\ SubSeq(r, Len(r) - Len(t) + 1, Len(r)) = t
               /\ \A i \in 1..(Len(r) - Len(t)) :
                      r[i].kind \in {"Step", ResumingRecord(Null).kind}
               /\ current_step = entry[f].current_step + StepCount(r)
               /\ current_step > 0

C24_Witness ==
    /\ JustEnded(1)
    /\ LoopLeft(1)
    /\ BlockedInStep(1)
    /\ current_step = max_steps
    /\ max_steps >= 2
    /\ user_input_required
    /\ results[1][Len(results[1])] = WaitingRecord

\* the user messages of a log
UserMessages(msgs) == {i \in 1..Len(msgs) : msgs[i].role = "user"}

\* C25: run(request) called in IDLE with a non-empty request appends exactly
\* one user message carrying the request before the first step executes; run
\* called in BLOCKED appends no user message, whatever request is passed.
C25_RequestRecordedOnce ==
    [][ \A q \in Requests :
          run(q) =>
            /\ (state = "IDLE" /\ q # "")
               => /\ memory' = Append(memory, Message("user", q))
                  /\ pc'[1] = "loop"
                  /\ current_step' = current_step
            /\ state = "BLOCKED" => memory' = memory ]_vars

C25_Witness ==
    /\ runs = 2
    /\ last = <<"run", "called">>
    /\ pc[1] = "loop"
    /\ entry[1].state = "BLOCKED"
    /\ memory = entry[1].memory
    /\ Cardinality(UserMessages(memory)) = 1
    /\ \E i \in UserMessages(memory) : memory[i].content = "q"

\* C26: unblock(input) on a BLOCKED agent sets the state to RUNNING,
\* block_reason to null and user_input_required to false, and appends the
\* input as exactly one user message iff it is non-empty; current_step and
\* all earlier log entries are unchanged.
C26_UnblockEffect ==
    [][ \A u \in UserInputs :
          (state = "BLOCKED" /\ unblock(u))
          => /\ state' = "RUNNING"
             /\ block_reason' = Null
             /\ user_input_required' = FALSE
             /\ memory' = IF u # "" THEN Append(memory, Message("user", u))
                          ELSE memory
             /\ current_step' = current_step ]_vars

C26_Witness ==
    /\ last = <<"unblock", "done">>
    /\ state = "RUNNING"
    /\ block_reason = Null
    /\ ~user_input_required
    /\ current_step > 0
    /\ Len(memory) >= 2
    /\ memory[Len(memory)] = Message("user", "u")

\* the stuck detector is true after the step that frame f has just executed,
\* and the step did not block
StuckDetected(f) ==
    pc[f] = "stepdone" /\ state # "BLOCKED" /\ is_stuck(memory)

\* C27: each time the stuck detector is true after a non-blocking step,
\* exactly one copy of the corrective instruction is prepended to the
\* next-step guidance; no other step of any run or call adds or removes a
\* copy, so the copies accumulate across detections and runs and their
\* number is the number of detections so far (no copy in a new agent).
C27_OneCopyPerDetection ==
    [][ IF \E f \in Frames : StuckDetected(f) /\ step_done(f)
        THEN next_step_prompt' = next_step_prompt + 1
        ELSE next_step_prompt' = next_step_prompt ]_vars

C27_Witness ==
    /\ JustEnded(1)
    /\ runs = 2
    /\ next_step_prompt >= 3
    /\ StepCount(results[1]) >= 1
    /\ entry[1].session

\* the run of frame f is between its call and MCPAgent.run's finally clause
BeforeFinally(f) ==
    pc[f] \in {"loop", "step", "llm", "act", "stepdone", "sandbox", "finally"}
\* the number of steps of the run of frame f whose think has been executed
ThinksDone(f) ==
    StepCount(results[f])
    + (IF pc[f] \in {"llm", "act", "stepdone"} \/ pending[f] = "fault"
       THEN 1 ELSE 0)
\* the pre-step link check passes (the link of a run changes only in the
\* finally clause)
LinkUsable == session /\ tool_map # {}

\* C28: the reconciler runs once every refresh_tools_interval (5) steps: in
\* step k (current_step after the increment) a pass is performed iff k is a
\* multiple of the interval and the pre-step link check passed; a run of 20
\* steps from current_step 0 reconciles at steps 5, 10, 15 and 20 only.
C28_RefreshSchedule ==
    \A f \in Frames :
        BeforeFinally(f)
        => /\ passes =
                {k \in (entry[f].current_step + 1)
                       ..(entry[f].current_step + ThinksDone(f)) :
                    k % refresh_tools_interval = 0 /\ LinkUsable}
           /\ ( /\ entry[f].current_step = 0
                /\ StepCount(results[f]) = 20
                /\ pending[f] = "return" )
              => passes = {5, 10, 15, 20}

C28_Witness ==
    /\ pc[1] = "finally"
    /\ pending[1] = "return"
    /\ entry[1].current_step = 0
    /\ StepCount(results[1]) = 20
    /\ passes = {5, 10, 15, 20}

\* C29: at the start of every step, if the link has no session or its tool
\* set is empty, the agent is set FINISHED, neither the decision engine nor
\* a reconciliation pass is invoked in that step, and the loop ends after
\* that step, whether or not the step is one the refresh schedule names.
C29_UnusableLinkFinishes ==
    [][ \A f \in Frames :
          /\ (pc[f] = "step" /\ ~LinkUsable /\ think_check(f))
             => /\ state' = "FINISHED"
                /\ pc'[f] = "stepdone"
                /\ UNCHANGED <<passes, memory, tool_schemas>>
          /\ ( /\ pc[f] \in {"stepdone", "loop"}
               /\ "finish" \in events[f]
               /\ ~LinkUsable )
             => /\ pc'[f] \in {"loop", "sandbox", "finally"}
                /\ current_step' = current_step \/ current_step' = 0 ]_vars

C29_Witness ==
    /\ pc[1] = "stepdone"
    /\ state = "FINISHED"
    /\ "finish" \in events[1]
    /\ ~session
    /\ refresh_due(current_step)
    /\ current_step > 0
    /\ passes = {}

\* C30: a reconciliation pass appends one system message naming the added
\* tools iff added is non-empty and one naming the removed tools iff removed
\* is non-empty, and nothing else: a pass in which only schemas changed
\* appends nothing, and a pass on a link without a session appends nothing
\* and leaves the schema cache unchanged.
C30_PassMessages ==
    [][ refresh_tools =>
          LET a == {n \in RefreshNames :
                       n \in DOMAIN live /\ n \notin DOMAIN tool_schemas}
              r == {n \in RefreshNames :
                       n \in DOMAIN tool_schemas /\ n \notin DOMAIN live}
              ma == IF a # {}
                    THEN <<[role |-> "system",
                            content |-> "New tools available",
                            tools |-> a]>>
                    ELSE <<>>
              mr == IF r # {}
                    THEN <<[role |-> "system",
                            content |-> "Tools no longer available",
                            tools |-> r]>>
                    ELSE <<>>
          IN  IF session
              THEN memory' = memory \o ma \o mr
              ELSE memory' = memory /\ tool_schemas' = tool_schemas ]_vars

\* a pass in which only schemas changed has left the log as initialize
\* wrote it
C30_Witness ==
    /\ refreshed.done
    /\ refreshed.session
    /\ refreshed.changed # {}
    /\ refreshed.added = {}
    /\ refreshed.removed = {}
    /\ memory # <<>>
    /\ memory[Len(memory)].content = "system_prompt"

\* the names 'id.local' of every registered link that has a session and
\* every tool of that link
LiveNames ==
    UNION { {clients[i].name \o <<Dot>> \o t :
                 t \in links[clients[i].link].tool_map} :
            i \in {j \in DOMAIN clients : links[clients[j].link].session} }
\* an operation that changes the registry has just completed
JustChanged ==
    /\ fed_pc = FedIdle
    /\ \/ fed_out.op = "add_client" /\ fed_out.returned.kind = "client"
       \/ fed_out.op = "disconnect_client" /\ fed_out.returned.kind = "True"
       \/ fed_out.op = "disconnect_all"

\* C31: after any completed addLink, removeLink or removeAll the flattened
\* namespace is exactly the set of names 'id.local' for every registered
\* link with a session and every tool of that link (a registered link
\* without a session contributes nothing); after removeAll the registry and
\* the namespace are empty and every link has been disconnected.
C31_NamespaceExact ==
    JustChanged
    => /\ DOMAIN fed_tool_map = LiveNames
       /\ fed_out.op = "disconnect_all"
          => /\ clients = <<>>
             /\ fed_tool_map = NoNamespace
             /\ \A l \in DOMAIN links : ~links[l].session

\* the namespace was exact when the operation in progress began: the last
\* operation completed before it was a successful addLink, removeLink or
\* removeAll
StartedExact ==
    \/ fed_out.op = "add_client" /\ fed_out.returned.kind = "client"
    \/ fed_out.op = "disconnect_client" /\ fed_out.returned.kind = "True"
    \/ fed_out.op = "disconnect_all"

\* C32: an observer scheduled while removeAll awaits the disconnect of a
\* link sees no descriptor in the flattened namespace whose link has already
\* had its session closed.
C32_NoStaleDescriptorAtAwait ==
    (fed_pc.op = "disconnect_all" /\ fed_pc.todo # <<>> /\ StartedExact)
    => \A k \in DOMAIN fed_tool_map : links[fed_tool_map[k].link].session

\* the resolution of a full name after the prefix step: the scan of the
\* links in registration order, then the flattened namespace, then the
\* tool-not-found result
ScanThenNamespace(name) ==
    LET holders == {i \in DOMAIN clients :
                        name \in links[clients[i].link].tool_map}
    IN  IF holders # {}
        THEN Dispatched(clients[CHOOSE i \in holders :
                                    \A j \in holders : i <= j].link, name)
        ELSE IF name \in DOMAIN fed_tool_map
        THEN Dispatched(fed_tool_map[name].link, fed_tool_map[name].local)
        ELSE ToolNotFound

\* C33: execute with a dotted name 'L.t' dispatches to link L only when L is
\* registered and connected; when L is registered without a session, or not
\* registered, nothing is dispatched to L by the prefix and the resolution
\* continues with the scan for the full name, the flattened namespace and
\* the tool-not-found result.
C33_PrefixNeedsSession ==
    (JustExecuted /\ has_separator(fed_out.name))
    => LET L == split_name(fed_out.name)[1]
           connected ==
               /\ registered(clients, L)
               /\ links[clients[client_index(clients, L)].link].session
       IN  ~connected => fed_out.returned = ScanThenNamespace(fed_out.name)

\* C34: an addLink call that fails (required transport parameters missing,
\* transport kind unsupported, or the connection attempt raises) leaves the
\* link registry and the flattened namespace exactly as they were, so the
\* same id can be added afterwards: a step that ends with the call raising
\* changes neither, and no step of a call with such inputs ends otherwise.
C34_FailedAddChangesNothing ==
    [][ (fed_pc = FedIdle /\ fed_out'.op = "add_client")
        => IF fed_out'.returned = Raised
           THEN UNCHANGED <<clients, fed_tool_map>>
           ELSE \A t \in ConnectionTypes, p \in BOOLEAN, r \in BOOLEAN,
                   tools \in ServerTools :
                  (t \notin {"sse", "stdio"} \/ ~p \/ ~r)
                  => ~add_client(fed_out'.name, t, p, r, tools) ]_vars

C34_Witness ==
    /\ fed_pc = FedIdle
    /\ fed_out.op = "add_client"
    /\ fed_out.returned = Raised
    /\ ~registered(clients, fed_out.name)
    /\ clients # <<>>
    /\ fed_tool_map # NoNamespace

\* C35: with two agents running concurrently, the run of one agent that
\* reaches a non-blocked exit releases only that agent's resources: the
\* sandbox in use by the other agent, which is still inside its step loop,
\* is not cleaned up.
C35_OtherAgentKeepsSandbox == sandbox.taken = {}

\* C36: after an accepted run has returned or raised, whatever the entry
\* state and the way the loop ended (block, finish, budget exhaustion,
\* fault), the agent is IDLE or BLOCKED, a state in which run can be called
\* again.
C36_RerunnableAfterRun ==
    \A f \in Frames :
        (JustEnded(f) /\ pending[f] \in {"return", "fault"})
        => state \in {"IDLE", "BLOCKED"}

\* the iterations that the run of frame f has started: one step record for
\* each step that returned, and the step that raised
IterationsOf(f) ==
    StepCount(results[f]) + (IF "fault" \in events[f] THEN 1 ELSE 0)
HasTerminated(recs) ==
    \E i \in 1..Len(recs) : recs[i] = TerminatedRecord(max_steps)

C38_StepCounter ==
    [][ /\ current_step \in 0..max_steps
        /\ current_step' \in 0..max_steps'
        /\ current_step' # current_step
           => \E f \in Frames :
                 /\ pc[f] = "loop"
                 /\ \/ /\ current_step' = current_step + 1
                       /\ pc'[f] = "step"
                    \/ /\ current_step' = 0
                       /\ budget_exhausted(current_step, max_steps, state)
                       /\ pc'[f] \in {"sandbox", "finally"} ]_vars

\* a run has ended blocked in the step that reached max_steps, after the
\* stuck handling has changed the prompt: the counter keeps the upper bound
C38_Witness ==
    /\ JustEnded(1)
    /\ "block" \in events[1]
    /\ next_step_prompt > 0
    /\ max_steps > 1
    /\ current_step = max_steps

\* the iterations that the run of frame f has started so far
IterationsStarted(f) ==
    StepCount(results[f])
    + (IF pc[f] \in {"step", "llm", "act", "stepdone"} \/ "fault" \in events[f]
       THEN 1 ELSE 0)

\* C39: provided every step returns or raises, an accepted run eventually
\* returns or raises, and it never starts more than max_steps - current_step
\* iterations, current_step being the value at the call, whatever the steps
\* do (go on, block, finish, repeat themselves).
C39_RunTerminates ==
    /\ [](\A f \in Frames :
             IterationsStarted(f) <= max_steps - entry[f].current_step)
    /\ \A f \in Frames : (pc[f] = "loop") ~> (pc[f] = "done")

\* a run that was called with steps already counted has used up what was
\* left of the budget, its steps having repeated themselves, and returned
C39_Witness ==
    /\ JustEnded(1)
    /\ pending[1] = "return"
    /\ entry[1].current_step > 0
    /\ next_step_prompt > 0
    /\ IterationsStarted(1) = max_steps - entry[1].current_step
    /\ IterationsStarted(1) > 1

====
